---- MODULE Spec2Model ----
(***************************************************************************)
(* Model of scripts/functest.py, the functional test runner: loading of    *)
(* the YAML test sources (Main.main), execution of one case                *)
(* (Main.run_test), reporting (Main.run_single_test), the executable gate  *)
(* (is_command_valid) and the normalizers.                                 *)
(*                                                                         *)
(* Texts are sequences of lexemes.  A lexeme is a run of characters that   *)
(* the parsers of the three formats treat as a unit:                       *)
(*   " "  "\n"        white space                                          *)
(*   "{" "}" ","      JSON / YAML-flow punctuation                         *)
(*   "a"  "b"         the members  "a": 1  and  "b": 2                     *)
(*   "a:" "b:"        the YAML block lines  a: 1  and  b: 2                *)
(*   "<r" "/>"        opening and closing of the empty element r           *)
(*   "p"  "q"         the attributes  p="1"  and  q="2" (with their space) *)
(*   "null" "..."     YAML's null scalar and document end marker           *)
(***************************************************************************)
EXTENDS Integers, Sequences, FiniteSets, TLC

(***************************************************************************)
(* Bounds of the model.                                                    *)
(***************************************************************************)
MaxSources == 3
MaxTests == 2
MaxStatus == 1

None == "None"

(***************************************************************************)
(* Helpers on sequences and dictionaries.                                  *)
(***************************************************************************)
Has(d, k) == k \in DOMAIN d

Get(d, k, default) == IF k \in DOMAIN d THEN d[k] ELSE default

Range(s) == {s[i] : i \in 1..Len(s)}

Without(s, S) == SelectSeq(s, LAMBDA e : e \notin S)

White == {" ", "\n"}

\* str.strip(): drop the leading and trailing white space.
RECURSIVE LStrip(_)
LStrip(t) == IF t # <<>> /\ Head(t) \in White THEN LStrip(Tail(t)) ELSE t

RECURSIVE RStrip(_)
RStrip(t) ==
    IF t # <<>> /\ t[Len(t)] \in White THEN RStrip(SubSeq(t, 1, Len(t) - 1)) ELSE t

Strip(t) == RStrip(LStrip(t))

\* The keys of a set of keys, in sorted order (sort_keys=True, c14n).
SortedKeys(keys, order) == SelectSeq(order, LAMBDA k : k \in keys)

(***************************************************************************)
(* normalize_json: json.loads, then json.dumps(sort_keys=True, indent=2).  *)
(***************************************************************************)
JsonMembers == {"a", "b"}

ParseError == [ok |-> FALSE, keys |-> {}]

Parsed(keys) == [ok |-> TRUE, keys |-> keys]

\* The members of a comma separated list m , m , ... or a parse error when
\* the lexemes are not such a list (trailing or doubled comma, foreign
\* lexeme).
RECURSIVE MemberList(_, _)
MemberList(t, members) ==
    IF t = <<>> THEN ParseError
    ELSE IF Head(t) \notin members THEN ParseError
    ELSE IF Len(t) = 1 THEN Parsed({Head(t)})
    ELSE IF t[2] # "," THEN ParseError
    ELSE LET rest == MemberList(SubSeq(t, 3, Len(t)), members)
         IN IF rest.ok THEN Parsed({Head(t)} \cup rest.keys) ELSE ParseError

\* json.loads: the set of keys of the object, or a parse error.  White
\* space between tokens is insignificant; a repeated key keeps one entry.
JsonLoads(text) ==
    LET t == Without(text, White)
    IN IF Len(t) < 2 \/ Head(t) # "{" \/ t[Len(t)] # "}" THEN ParseError
       ELSE IF Len(t) = 2 THEN Parsed({})
       ELSE MemberList(SubSeq(t, 2, Len(t) - 1), JsonMembers)

RECURSIVE JsonLines(_)
JsonLines(keys) ==
    IF keys = <<>> THEN <<>>
    ELSE <<"\n", " ", " ", Head(keys)>>
         \o (IF Len(keys) > 1 THEN <<",">> ELSE <<>>)
         \o JsonLines(Tail(keys))

JsonDumps(obj) ==
    IF obj = {} THEN <<"{", "}">>
    ELSE <<"{">> \o JsonLines(SortedKeys(obj, <<"a", "b">>)) \o <<"\n", "}">>

normalize_json(json_str) ==
    LET obj == JsonLoads(json_str)
    IN IF obj.ok THEN JsonDumps(obj.keys) ELSE json_str

(***************************************************************************)
(* normalize_xml: parse (blank text removed), exclusive c14n without       *)
(* comments, re-parse, pretty-print as ASCII, strip.                       *)
(***************************************************************************)
XmlAttrs == {"p", "q"}

\* etree.XML: the set of attributes of the element, or a syntax error.
\* White space is allowed around the element and between the attributes; a
\* repeated attribute is a syntax error.
XmlParse(text) ==
    LET t == Strip(text)
    IN IF Len(t) < 2 \/ Head(t) # "<r" \/ t[Len(t)] # "/>" THEN ParseError
       ELSE LET body == Without(SubSeq(t, 2, Len(t) - 1), White)
            IN IF Range(body) \subseteq XmlAttrs
                  /\ Cardinality(Range(body)) = Len(body)
               THEN Parsed(Range(body)) ELSE ParseError

XmlPretty(attrs) == <<"<r">> \o SortedKeys(attrs, <<"p", "q">>) \o <<"/>">>

normalize_xml(xml_str) ==
    LET root == XmlParse(xml_str)
    IN IF root.ok THEN Strip(XmlPretty(root.keys)) ELSE xml_str

(***************************************************************************)
(* normalize_yaml: yaml.safe_load, then                                    *)
(* yaml.dump(sort_keys=True, default_flow_style=False).                    *)
(* The loader is modelled on the texts the runs draw (Texts below) and on  *)
(* the normal forms of the three normalizers: a flow mapping, a block      *)
(* mapping, the empty document, a plain scalar, or a syntax error for an   *)
(* unclosed flow mapping.                                                  *)
(***************************************************************************)
YamlBlock == [a |-> "a:", b |-> "b:"]

YamlEnd == <<"\n", "...", "\n">>

\* A flow mapping { m, m, } (YAML accepts a trailing comma).
YamlFlow(t) ==
    LET inner == SubSeq(t, 2, Len(t) - 1)
        items == IF inner # <<>> /\ inner[Len(inner)] = ","
                 THEN SubSeq(inner, 1, Len(inner) - 1) ELSE inner
    IN IF items = <<>> THEN (IF inner = <<>> THEN Parsed({}) ELSE ParseError)
       ELSE MemberList(items, JsonMembers)

\* yaml.safe_load: [kind, keys, text] with kind "map" (keys: the mapping's
\* keys), "null", "str" (text: the scalar) or "error".
YamlValue(kind, keys, text) == [kind |-> kind, keys |-> keys, text |-> text]

YamlLoad(text) ==
    LET t == Strip(text)
        bare == Without(t, White)
    IN IF bare = <<>> \/ bare = <<"null", "...">> \/ bare = <<"null">>
       THEN YamlValue("null", {}, <<>>)
       ELSE IF Head(bare) = "{"
       THEN IF bare[Len(bare)] # "}" \/ Len(bare) < 2
            THEN YamlValue("error", {}, <<>>)
            ELSE LET m == YamlFlow(bare)
                 IN IF m.ok THEN YamlValue("map", m.keys, <<>>)
                    ELSE YamlValue("error", {}, <<>>)
       ELSE IF Range(bare) \subseteq {"a:", "b:"}
       THEN YamlValue("map",
                      {k \in JsonMembers : YamlBlock[k] \in Range(bare)}, <<>>)
       ELSE IF Len(t) > 2 /\ SubSeq(t, Len(t) - 1, Len(t)) = <<"\n", "...">>
       THEN YamlValue("str", {}, Strip(SubSeq(t, 1, Len(t) - 2)))
       ELSE YamlValue("str", {}, t)

RECURSIVE YamlLines(_)
YamlLines(keys) ==
    IF keys = <<>> THEN <<>>
    ELSE <<YamlBlock[Head(keys)], "\n">> \o YamlLines(Tail(keys))

YamlDump(obj) ==
    CASE obj.kind = "null" -> <<"null">> \o YamlEnd
      [] obj.kind = "str" -> obj.text \o YamlEnd
      [] obj.kind = "map" ->
            IF obj.keys = {} THEN <<"{", "}", "\n">>
            ELSE YamlLines(SortedKeys(obj.keys, <<"a", "b">>))

normalize_yaml(yaml_str) ==
    LET obj == YamlLoad(yaml_str)
    IN IF obj.kind = "error" THEN yaml_str ELSE YamlDump(obj)

(***************************************************************************)
(* normalization_functions and its lookup .get(norm_key, None).            *)
(***************************************************************************)
normalization_functions == {"xml", "json", "yaml"}

NormalizationFunc(norm_key) ==
    IF norm_key \in normalization_functions THEN norm_key ELSE None

ApplyNorm(func, text) ==
    CASE func = "xml" -> normalize_xml(text)
      [] func = "json" -> normalize_json(text)
      [] func = "yaml" -> normalize_yaml(text)
      [] OTHER -> text

(***************************************************************************)
(* str.format on a command template.  A template is a sequence of words;   *)
(* a word is literal text or a replacement field {name} wrapped in depth   *)
(* further pairs of doubled braces: depth 0 is {name}, depth 1 is          *)
(* {{name}}.  format replaces the depth 0 fields it has an argument for,   *)
(* raises KeyError for any other depth 0 field, and unwraps one pair of    *)
(* doubled braces.                                                         *)
(***************************************************************************)
Lit(text) == [kind |-> "lit", text |-> text, depth |-> 0]

Field(name, depth) == [kind |-> "field", text |-> name, depth |-> depth]

FormatWord(w, name, value) ==
    IF w.kind = "lit" THEN w
    ELSE IF w.depth = 0 THEN Lit(value)
    ELSE Field(w.text, w.depth - 1)

Format(template, name, value) ==
    IF \E i \in 1..Len(template) :
           /\ template[i].kind = "field"
           /\ template[i].depth = 0
           /\ template[i].text # name
    THEN [raised |-> TRUE, words |-> <<>>]
    ELSE [raised |-> FALSE,
          words |-> [i \in 1..Len(template) |->
                        FormatWord(template[i], name, value)]]

(***************************************************************************)
(* The file system and search path the gate consults.  Paths are sequences *)
(* of components.                                                          *)
(***************************************************************************)
NoPath == <<None>>

\* os.getcwd()
Cwd == <<"home">>

\* os.path.isabs
IsAbs(executable) == executable \in {"/allowed/link", "/bin/echo"}

\* The absolute path an absolute executable name denotes.
AbsPath(executable) ==
    CASE executable = "/allowed/link" -> <<"allowed", "link">>
      [] executable = "/bin/echo" -> <<"bin", "echo">>

\* os.path.realpath: /allowed/link is a symbolic link to /bin/echo.
RealPath(path) ==
    IF path = <<"allowed", "link">> THEN <<"bin", "echo">> ELSE path

\* shutil.which: the executables found on the search path.
Which(executable) ==
    CASE executable = "monogram" -> <<"allowed", "bin", "monogram">>
      [] executable = "echo" -> <<"bin", "echo">>
      [] OTHER -> NoPath

\* os.path.commonpath of two absolute paths: the longest common prefix.
CommonPath(p, q) ==
    LET n == IF Len(p) < Len(q) THEN Len(p) ELSE Len(q)
        k == CHOOSE k \in 0..n :
                /\ \A i \in 1..k : p[i] = q[i]
                /\ k = n \/ p[k + 1] # q[k + 1]
    IN SubSeq(p, 1, k)

\* shlex.split: the words of the command; an unbalanced quote raises
\* ValueError.
ShlexSplit(command) ==
    IF \E i \in 1..Len(command) : command[i].kind = "lit" /\ command[i].text = "'"
    THEN [raised |-> TRUE, tokens |-> <<>>]
    ELSE [raised |-> FALSE,
          tokens |-> command]

GateResult(raised, valid, msg) == [raised |-> raised, valid |-> valid, msg |-> msg]

\* A word as it appears in a message.
WordText(w) == IF w.kind = "lit" THEN w.text ELSE "{" \o w.text \o "}"

is_command_valid(command, base_path) ==
    LET split == ShlexSplit(command)
        tokens == split.tokens
        executable == WordText(tokens[1])
        resolved == IF IsAbs(executable) THEN RealPath(AbsPath(executable))
                    ELSE IF Which(executable) # NoPath
                    THEN RealPath(Which(executable))
                    ELSE NoPath
        base == RealPath(IF base_path = NoPath THEN Cwd ELSE base_path)
    IN IF split.raised THEN GateResult(TRUE, FALSE, "ValueError")
       ELSE IF tokens = <<>> THEN GateResult(FALSE, FALSE, "Empty command.")
       ELSE IF resolved = NoPath
       THEN GateResult(FALSE, FALSE, "Could not resolve executable")
       ELSE IF CommonPath(resolved, base) # base
       THEN GateResult(FALSE, FALSE, "Executable is not under allowed path")
       ELSE GateResult(FALSE, TRUE, "")

(***************************************************************************)
(* Main.run_test.  proc is what subprocess.run returns if it is called.    *)
(* The value is the record of the call: whether it raised, whether the     *)
(* gate and the subprocess were reached, the locals command and norm_key,  *)
(* the normalization function called (None when none was) and the returned *)
(* tuple ret.                                                              *)
(***************************************************************************)
Verdict(name, passed, actual, expected, stderr_text) ==
    [name |-> name, passed |-> passed, actual |-> actual,
     expected |-> expected, stderr |-> stderr_text]

NoVerdict == Verdict("", FALSE, <<>>, <<>>, <<>>)

NoResult == [returncode |-> 0, stdout |-> <<>>, stderr |-> <<>>]

Call(exc, command, norm_key, gated, invoked, result, normalized, ret) ==
    [raised |-> exc # None, exc |-> exc, command |-> command,
     norm_key |-> norm_key, gated |-> gated, invoked |-> invoked,
     result |-> result, normalized |-> normalized, ret |-> ret]

NoCall == Call(None, <<>>, None, FALSE, FALSE, NoResult, None, NoVerdict)

\* Variant: a source level default takes precedence over the case's key.
EffectiveKey_DefaultWins(test, default_normalize) ==
    IF default_normalize # None THEN default_normalize
    ELSE Get(test, "normalize", None)

\* norm_key = test.get("normalize", default_normalize)
EffectiveKey(test, default_normalize) == Get(test, "normalize", default_normalize)

\* Variant: the gate's answer is ignored.
GateBlocks_Never(gate) == FALSE

\* if not valid
GateBlocks(gate) == ~gate.valid

\* Variant: the exit status is compared with 0, not with the expected one.
StatusDiffers_FromZero(returncode, expected_exit_status) == returncode # 0

\* if result.returncode != expected_exit_status
StatusDiffers(returncode, expected_exit_status) ==
    returncode # expected_exit_status

\* Variant: the texts are compared without trimming.
Compare_Untrimmed(actual_output, expected_output) ==
    actual_output = expected_output

\* passed = (actual_output.strip() == expected_output.strip())
Compare(actual_output, expected_output) ==
    Strip(actual_output) = Strip(expected_output)

run_test(tcount, test, default_normalize, check_path, arg_command, proc) ==
    LET name == Get(test, "name", "<unnamed>")
        first == Format(test["command"], "command", arg_command)
        second == Format(first.words, "count", ToString(tcount))
        command == second.words
        expected_output == Get(test, "expected_output", <<>>)
        expected_exit_status == Get(test, "expected_exit_status", 0)
        norm_key == EffectiveKey(test, default_normalize)
        normalization_func == NormalizationFunc(norm_key)
        gate == is_command_valid(command, check_path)
        actual_output == ApplyNorm(normalization_func, proc.stdout)
        expected == ApplyNorm(normalization_func, expected_output)
    IN IF ~Has(test, "command") \/ first.raised \/ second.raised
       THEN Call("KeyError", <<>>, None, FALSE, FALSE, NoResult, None, NoVerdict)
       ELSE IF gate.raised
       THEN Call("ValueError", command, norm_key, TRUE, FALSE, NoResult, None,
                 NoVerdict)
       ELSE IF GateBlocks(gate)
       THEN Call(None, command, norm_key, TRUE, FALSE, NoResult, None,
                 Verdict(name, FALSE, <<"COMMAND ERROR: " \o gate.msg>>,
                         expected_output, <<>>))
       ELSE IF StatusDiffers(proc.returncode, expected_exit_status)
       THEN Call(None, command, norm_key, TRUE, TRUE, proc, None,
                 Verdict(name, FALSE,
                         <<"EXIT STATUS " \o ToString(proc.returncode)>>,
                         <<"EXPECTED STATUS " \o ToString(expected_exit_status)>>,
                         proc.stderr))
       ELSE Call(None, command, norm_key, TRUE, TRUE, proc, normalization_func,
                 Verdict(name, Compare(actual_output, expected),
                         actual_output, expected, proc.stderr))

(***************************************************************************)
(* Main.run_single_test: the lines printed for a verdict.  Every print of  *)
(* the method writes to the standard output stream.                        *)
(***************************************************************************)
Line(kind, text) == [kind |-> kind, text |-> text]

PassLines(v, quiet) == IF quiet THEN <<>> ELSE <<Line("PASS", <<v.name>>)>>

FailLines(v) ==
    <<Line("FAIL", <<v.name>>),
      Line("Expected:", <<>>), Line("expected", v.expected),
      Line("Actual:", <<>>), Line("actual", v.actual),
      Line("Diff:", <<>>), Line("diff", <<>>)>>
    \o (IF v.stderr # <<>>
        THEN <<Line("Error output:", <<>>), Line("stderr", v.stderr)>>
        ELSE <<>>)
    \o <<Line("separator", <<>>)>>

run_single_test(v, quiet) == IF v.passed THEN PassLines(v, quiet) ELSE FailLines(v)

(***************************************************************************)
(* The inputs of the runs: texts, command templates, test cases, source    *)
(* documents and subprocess results.                                       *)
(***************************************************************************)
J_ab == <<"{", "a", ",", "b", "}">>

J_ba == <<"{", "b", ",", " ", "a", "}">>

J_ab_padded == <<" ", "{", "a", ",", "b", "}", "\n">>

X_pq == <<"<r", "p", "q", "/>">>

X_qp == <<"<r", "q", " ", "p", "/>", "\n">>

Unclosed == <<"{", "a">>

Texts == {<<>>, J_ab, J_ba, J_ab_padded, X_pq, X_qp, Unclosed}

T_plain == <<Field("command", 0)>>

T_count == <<Field("command", 0), Lit("-o"), Field("count", 1)>>

T_badcount == <<Field("command", 0), Field("count", 0)>>

T_quote == <<Field("command", 0), Lit("'")>>

T_outside == <<Lit("echo"), Lit("hi")>>

T_nosuch == <<Lit("nosuch")>>

T_link == <<Lit("/allowed/link")>>

T_empty == <<>>

\* The cases of the runs over several sources.
Cases ==
    { [name |-> "plain", command |-> T_plain, expected_output |-> J_ab],
      [command |-> T_count, input |-> J_ba, expected_output |-> J_ab,
       normalize |-> "none"],
      [name |-> "status", command |-> T_plain, expected_output |-> J_ab,
       expected_exit_status |-> 1, normalize |-> "yaml"],
      [name |-> "outside", command |-> T_outside, expected_output |-> J_ab],
      [name |-> "badcount", command |-> T_badcount],
      [name |-> "nocommand", expected_output |-> J_ab],
      [name |-> "quote", command |-> T_quote] }

Defaults == {"json"}

\* The cases of the runs of a single case.
NormKeys == {"xml", "json", "yaml", "none", "html"}

GateCases ==
    { [name |-> "gate", command |-> c] : c \in {T_nosuch, T_link, T_empty} }

CompareCases ==
    { [name |-> "compare", command |-> T_plain, expected_output |-> e,
       expected_exit_status |-> m, normalize |-> k] :
          e \in {J_ab, X_pq}, m \in 0..MaxStatus, k \in NormKeys }

DefaultedCases ==
    { [command |-> T_plain, expected_output |-> e] : e \in {<<>>, J_ab, X_pq} }

SingleCases == GateCases \cup CompareCases \cup DefaultedCases

\* What yaml.safe_load returns for a source: the read or the parse raises,
\* the document is not a mapping, or it is a mapping with optional keys
\* normalize and tests.
Doc(kind, dict) == [kind |-> kind, dict |-> dict]

NoDict == <<>>

CaseLists(cases, n) == UNION {[1..k -> cases] : k \in 0..n}

Mappings(defaults, lists) ==
    {NoDict}
    \cup {[normalize |-> d] : d \in defaults}
    \cup {[tests |-> l] : l \in lists}
    \cup {[normalize |-> d, tests |-> l] : d \in defaults, l \in lists}

SourceDocs ==
    {Doc("error", NoDict), Doc("notmapping", NoDict)}
    \cup {Doc("mapping", m) : m \in Mappings(Defaults, CaseLists(Cases, MaxTests))}

SingleDocs ==
    {Doc("error", NoDict)}
    \cup {Doc("mapping", m) :
            m \in Mappings(NormKeys \ {"html"}, CaseLists(SingleCases, 1))}

\* What subprocess.run returns.
Result(returncode, stdout, stderr_text) ==
    [returncode |-> returncode, stdout |-> stdout, stderr |-> stderr_text]

Results ==
    { Result(n, o[1], o[2]) :
        n \in 0..MaxStatus, o \in {<<J_ab, <<>>>>, <<J_ba, <<"warning">>>>} }

SingleResults ==
    { Result(n, t, e) : n \in 0..MaxStatus, t \in Texts, e \in {<<>>, <<"warning">>} }

(***************************************************************************)
(* The state of a run of Main.main.                                        *)
(***************************************************************************)
VARIABLES
    args,          \* the parsed command line: tests, check_on_path, command, quiet
    pc,            \* "load", "check", "run" or "exit"
    test_file,     \* index in args.tests of the next source to read
    data,          \* the last document loaded
    all_tests,     \* the (default_normalize, test) pairs loaded so far
    tcount,        \* the number of entries of all_tests enumerated so far
    total,
    passed_count,
    last,          \* the last call of run_test: its arguments and its record
    verdicts,      \* the tuples run_test has returned, in order
    procs,         \* the subprocesses run so far, in order
    out,           \* the lines written to the standard output stream
    err,           \* the lines written to the error stream
    exit_code      \* the process exit status, Running before it exits

vars == <<args, pc, test_file, data, all_tests, tcount, total, passed_count,
          last, verdicts, procs, out, err, exit_code>>

Running == -1

NoLast == [tcount |-> 0, test |-> NoDict, default_normalize |-> None,
           call |-> NoCall]

Args(n, check_on_path, quiet) ==
    [tests |-> [i \in 1..n |-> i], check_on_path |-> check_on_path,
     command |-> "monogram", quiet |-> quiet]

Start(a) ==
    /\ args = a
    /\ pc = "load"
    /\ test_file = 1
    /\ data = Doc("unset", NoDict)
    /\ all_tests = <<>>
    /\ tcount = 0
    /\ total = 0
    /\ passed_count = 0
    /\ last = NoLast
    /\ verdicts = <<>>
    /\ procs = <<>>
    /\ out = <<>>
    /\ err = <<>>
    /\ exit_code = Running

Init ==
    \E n \in 1..MaxSources, c \in {NoPath, <<"allowed">>}, q \in BOOLEAN :
        Start(Args(n, c, q))

InitSingle ==
    \E c \in {NoPath, <<"allowed">>}, q \in BOOLEAN : Start(Args(1, c, q))

\* The name of a source as it is printed: args.tests[i].
FileName(i) == <<ToString(args.tests[i])>>

\* sys.exit(code)
Exit(code) == exit_code' = code /\ pc' = "exit"

\* Variant: a source that cannot be read is skipped.
OnLoadError_Continue(doc) ==
    /\ data' = (IF doc.kind = "error" THEN data ELSE doc)
    /\ err' = Append(err, Line("Error reading", FileName(test_file)))
    /\ test_file' = test_file + 1
    /\ UNCHANGED <<pc, exit_code, all_tests>>

\* except Exception: the diagnostic and sys.exit(1).  data keeps its value
\* when the read or the parse raised, and is the document when data.get did.
OnLoadError(doc) ==
    /\ data' = (IF doc.kind = "error" THEN data ELSE doc)
    /\ err' = Append(err, Line("Error reading", FileName(test_file)))
    /\ Exit(1)
    /\ UNCHANGED <<test_file, all_tests>>

\* Variant: the cases of a source are put before those loaded earlier.
Extend_Prepend(tests_so_far, default_normalize, tests) ==
    [i \in 1..Len(tests) |-> <<default_normalize, tests[i]>>] \o tests_so_far

\* all_tests.extend((default_normalize, test) for test in tests)
Extend(tests_so_far, default_normalize, tests) ==
    tests_so_far \o [i \in 1..Len(tests) |-> <<default_normalize, tests[i]>>]

\* One iteration of the loop over args.tests.
LoadStep(docs) ==
    /\ pc = "load"
    /\ test_file <= Len(args.tests)
    /\ \E doc \in docs :
          LET default_normalize == Get(doc.dict, "normalize", None)
              tests == Get(doc.dict, "tests", <<>>)
          IN /\ Len(all_tests) + Len(tests) <= MaxTests
             /\ IF doc.kind # "mapping"
                THEN OnLoadError(doc)
                ELSE /\ data' = doc
                     /\ test_file' = test_file + 1
                     /\ UNCHANGED <<pc, exit_code>>
                     /\ IF tests = <<>>
                        THEN /\ err' = Append(err, Line("No tests found in",
                                                        FileName(test_file)))
                             /\ UNCHANGED all_tests
                        ELSE /\ all_tests' = Extend(all_tests, default_normalize,
                                                    tests)
                             /\ UNCHANGED err
    /\ UNCHANGED <<args, tcount, total, passed_count, last, verdicts, procs,
                   out>>

\* After the loop over args.tests: the check for no tests at all, and the
\* initialisation of the counters.
CheckTests ==
    /\ pc = "load"
    /\ test_file > Len(args.tests)
    /\ IF all_tests = <<>>
       THEN /\ err' = Append(err, Line("No valid tests found", <<>>))
            /\ Exit(1)
            /\ UNCHANGED <<total, passed_count>>
       ELSE /\ total' = 0
            /\ passed_count' = 0
            /\ pc' = "run"
            /\ UNCHANGED <<err, exit_code>>
    /\ UNCHANGED <<args, test_file, data, all_tests, tcount, last, verdicts,
                   procs, out>>

\* Variant: every case is counted as passed.
Count_Always(passed, count) == count + 1

\* Variant: the run succeeds as soon as one case passed.
ExitStatus_AnyPassed(passed, n) == IF passed > 0 THEN 0 ELSE 1

\* if self.run_single_test(...): passed_count += 1
Count(passed, count) == IF passed THEN count + 1 ELSE count

\* sys.exit(0 if passed_count == total else 1)
ExitStatus(passed, n) == IF passed = n THEN 0 ELSE 1

\* One iteration of the loop over enumerate(all_tests).  An exception of
\* run_test is not caught: the interpreter prints the traceback on the
\* error stream and exits with status 1.
RunStep(results) ==
    /\ pc = "run"
    /\ tcount < Len(all_tests)
    /\ \E proc \in results :
          LET default_normalize == all_tests[tcount + 1][1]
              test == all_tests[tcount + 1][2]
              call == run_test(tcount, test, default_normalize,
                               args.check_on_path, args.command, proc)
          IN /\ total' = total + 1
             /\ last' = [tcount |-> tcount, test |-> test,
                         default_normalize |-> default_normalize,
                         call |-> call]
             /\ procs' = IF call.invoked
                         THEN Append(procs, [tcount |-> tcount,
                                             command |-> call.command,
                                             input |-> Get(test, "input", <<>>)])
                         ELSE procs
             /\ IF call.raised
                THEN /\ err' = Append(err, Line("Traceback", <<call.exc>>))
                     /\ Exit(1)
                     /\ UNCHANGED <<tcount, passed_count, verdicts, out>>
                ELSE /\ out' = out \o run_single_test(call.ret, args.quiet)
                     /\ verdicts' = Append(verdicts, call.ret)
                     /\ passed_count' = Count(call.ret.passed, passed_count)
                     /\ tcount' = tcount + 1
                     /\ UNCHANGED <<pc, exit_code, err>>
    /\ UNCHANGED <<args, test_file, data, all_tests>>

\* After the loop over all_tests: the summary and the exit status.
Summary ==
    /\ pc = "run"
    /\ tcount = Len(all_tests)
    /\ out' = Append(out, Line("Summary",
                               <<ToString(passed_count), ToString(total)>>))
    /\ Exit(ExitStatus(passed_count, total))
    /\ UNCHANGED <<args, test_file, data, all_tests, tcount, total,
                   passed_count, last, verdicts, procs, err>>

Next ==
    \/ LoadStep(SourceDocs)
    \/ CheckTests
    \/ RunStep(Results)
    \/ Summary

Spec == Init /\ [][Next]_vars

NextSingle ==
    \/ LoadStep(SingleDocs)
    \/ CheckTests
    \/ RunStep(SingleResults)
    \/ Summary

SpecSingle == InitSingle /\ [][NextSingle]_vars

(***************************************************************************)
(* Properties.                                                             *)
(***************************************************************************)
HasLine(stream, kind) == \E i \in 1..Len(stream) : stream[i].kind = kind

Called == last # NoLast

\* The expected exit status and output of the case of the last call.
ExpectedStatus == Get(last.test, "expected_exit_status", 0)

ExpectedOutput == Get(last.test, "expected_output", <<>>)

\* The step reads a source and goes on to the next one.
Loads == pc = "load" /\ test_file' = test_file + 1

\* C1: the process exits with 0 when every loaded case passed and with 1
\* when a case failed, a source could not be read or parsed, or no case was
\* found; after the summary the status is 0 iff passed_count = total.
C1_ExitStatus ==
    pc = "exit" =>
        /\ exit_code \in {0, 1}
        /\ exit_code = 0 <=>
              /\ ~HasLine(err, "Error reading")
              /\ all_tests # <<>>
              /\ Len(verdicts) = Len(all_tests)
              /\ \A i \in 1..Len(verdicts) : verdicts[i].passed
        /\ HasLine(out, "Summary") => (exit_code = 0 <=> passed_count = total)

C1_Witness ==
    /\ pc = "exit"
    /\ exit_code = 0
    /\ Len(verdicts) = 2
    /\ HasLine(err, "No tests found in")

\* C2: the verdict of run_test is passing iff the subprocess ran, its exit
\* status is the expected one, and its output equals the expected output
\* after both went through the effective normalizer (if any) and were
\* trimmed.
C2_PassedIff ==
    LET func == NormalizationFunc(Get(last.test, "normalize",
                                      last.default_normalize))
    IN (Called /\ ~last.call.raised) =>
          (last.call.ret.passed <=>
              /\ last.call.invoked
              /\ last.call.result.returncode = ExpectedStatus
              /\ Strip(ApplyNorm(func, last.call.result.stdout))
                    = Strip(ApplyNorm(func, ExpectedOutput)))

C2_Witness ==
    /\ Called
    /\ last.call.ret.passed
    /\ last.call.normalized = None
    /\ last.call.result.stdout = J_ab_padded
    /\ ExpectedOutput = J_ab

\* C3: when the exit status n of the subprocess differs from the expected
\* status m, the verdict fails with actual output "EXIT STATUS n" and
\* expected output "EXPECTED STATUS m", and no normalization function is
\* called, whatever the output was.
C3_StatusMismatch ==
    (Called /\ last.call.invoked
       /\ last.call.result.returncode # ExpectedStatus) =>
        /\ ~last.call.ret.passed
        /\ last.call.ret.actual =
              <<"EXIT STATUS " \o ToString(last.call.result.returncode)>>
        /\ last.call.ret.expected =
              <<"EXPECTED STATUS " \o ToString(ExpectedStatus)>>
        /\ last.call.normalized = None

C3_Witness ==
    /\ Called
    /\ last.call.invoked
    /\ last.call.result.returncode = 0
    /\ ExpectedStatus = 1
    /\ last.call.result.stdout = ExpectedOutput
    /\ last.call.norm_key = "json"
    /\ last.call.ret.actual = <<"EXIT STATUS 0">>

\* The gate rejected the command of the last call.
Rejected ==
    /\ Called
    /\ last.call.gated
    /\ ~last.call.raised
    /\ ~is_command_valid(last.call.command, args.check_on_path).valid

\* C4: a subprocess is run only for a command the gate accepts; a rejected
\* command runs no subprocess and gives a failing verdict whose actual
\* output is the gate's message as a COMMAND ERROR; the run goes on, and
\* the cases are all executed and counted when the summary is printed.
C4_GateRejection ==
    /\ \A i \in 1..Len(procs) :
          is_command_valid(procs[i].command, args.check_on_path).valid
    /\ Rejected =>
          /\ ~last.call.invoked
          /\ \A i \in 1..Len(procs) : procs[i].tcount # last.tcount
          /\ ~last.call.ret.passed
          /\ last.call.ret.actual =
                <<"COMMAND ERROR: "
                    \o is_command_valid(last.call.command,
                                        args.check_on_path).msg>>
          /\ verdicts[last.tcount + 1] = last.call.ret
          /\ total = last.tcount + 1
          /\ pc = "run" \/ HasLine(out, "Summary")
    /\ HasLine(out, "Summary") =>
          Len(verdicts) = Len(all_tests) /\ total = Len(all_tests)

C4_Witness ==
    /\ HasLine(out, "Summary")
    /\ Len(verdicts) = 2
    /\ verdicts[1].actual =
          <<"COMMAND ERROR: Executable is not under allowed path">>
    /\ Len(procs) = 1
    /\ procs[1].tcount = 1
    /\ total = 2

\* C5: when a source cannot be read or parsed the run exits at once with
\* status 1 and a diagnostic: no case is executed, nothing is written to
\* the standard output stream, and the loop over the sources stops at the
\* failing source.
C5_LoadErrorAborts ==
    HasLine(err, "Error reading") =>
        /\ pc = "exit"
        /\ exit_code = 1
        /\ out = <<>>
        /\ verdicts = <<>>
        /\ procs = <<>>
        /\ ~Called
        /\ tcount = 0
        /\ err[Len(err)] = Line("Error reading", FileName(test_file))

C5_Witness ==
    /\ HasLine(err, "Error reading")
    /\ Len(all_tests) = 2
    /\ test_file = 2
    /\ test_file < Len(args.tests)

\* C6: each source appends its cases, in order and tagged with its default,
\* to all_tests; an empty source writes a warning, appends nothing and does
\* not stop the loading; the index passed to run_test, and substituted for
\* the count placeholder, is the 0-based position in all_tests, the indices
\* being used in order without gap or repeat.
C6_LoadStep ==
    LET tests == Get(data'.dict, "tests", <<>>)
        tagged == [i \in 1..Len(tests) |->
                      <<Get(data'.dict, "normalize", None), tests[i]>>]
    IN IF Loads
       THEN /\ all_tests' = all_tests \o tagged
            /\ tests = <<>> =>
                  /\ err' = Append(err, Line("No tests found in",
                                              FileName(test_file)))
                  /\ pc' = "load"
                  /\ exit_code' = Running
       ELSE all_tests' = all_tests

C6_RunStep ==
    last' # last =>
        /\ last'.tcount = Len(verdicts)
        /\ last'.tcount < Len(all_tests)
        /\ last'.test = all_tests[last'.tcount + 1][2]
        /\ ~last'.call.raised =>
              /\ Len(verdicts') = Len(verdicts) + 1
              /\ \A i \in 1..Len(last'.test["command"]) :
                    last'.test["command"][i] = Field("count", 1) =>
                        last'.call.command[i] = Lit(ToString(last'.tcount))

C6_GlobalSequence == [][C6_LoadStep /\ C6_RunStep]_vars

C6_Witness ==
    /\ test_file = 4
    /\ err = <<Line("No tests found in", FileName(2))>>
    /\ Len(all_tests) = 2
    /\ Called
    /\ last.tcount = 1
    /\ last.call.command = <<Lit("monogram"), Lit("-o"), Lit("1")>>

\* C7: the failure lines of a case are written to the error stream; only
\* PASS notices and the summary are written to the standard output stream.
C7_OutputStreams ==
    \A i \in 1..Len(out) : out[i].kind \in {"PASS", "Summary"}

\* C8: once the loading succeeded, an error in the execution of a case is
\* a failing verdict of that case: every case is attempted and the summary
\* is printed.
C8_ErrorsCaptured ==
    (pc = "exit" /\ all_tests # <<>> /\ ~HasLine(err, "Error reading")) =>
        /\ HasLine(out, "Summary")
        /\ Len(verdicts) = Len(all_tests)
        /\ ~HasLine(err, "Traceback")

\* C9: the normalization key of a case is its own normalize field if it has
\* one, else the default of the source it was loaded from; for xml, json
\* and yaml that normalizer is applied to the output and to the expected
\* output, for any other key both are compared as they are.
C9_Tagging ==
    Loads =>
        \A i \in (Len(all_tests) + 1)..Len(all_tests') :
            all_tests'[i][1] = Get(data'.dict, "normalize", None)

C9_Key ==
    (Called /\ last.call.gated) =>
        /\ last.default_normalize = all_tests[last.tcount + 1][1]
        /\ last.call.norm_key =
              IF Has(last.test, "normalize") THEN last.test["normalize"]
              ELSE last.default_normalize
        /\ (last.call.invoked /\ last.call.result.returncode = ExpectedStatus) =>
              CASE last.call.norm_key = "xml" ->
                      /\ last.call.ret.actual = normalize_xml(last.call.result.stdout)
                      /\ last.call.ret.expected = normalize_xml(ExpectedOutput)
                [] last.call.norm_key = "json" ->
                      /\ last.call.ret.actual = normalize_json(last.call.result.stdout)
                      /\ last.call.ret.expected = normalize_json(ExpectedOutput)
                [] last.call.norm_key = "yaml" ->
                      /\ last.call.ret.actual = normalize_yaml(last.call.result.stdout)
                      /\ last.call.ret.expected = normalize_yaml(ExpectedOutput)
                [] OTHER ->
                      /\ last.call.ret.actual = last.call.result.stdout
                      /\ last.call.ret.expected = ExpectedOutput
                      /\ last.call.normalized = None

C9_EffectiveKey == []C9_Key /\ [][C9_Tagging]_vars

C9_Witness ==
    /\ Called
    /\ last.tcount = 1
    /\ all_tests[1][1] = None
    /\ all_tests[2][1] = "json"
    /\ Has(last.test, "normalize")
    /\ last.call.norm_key = "none"
    /\ last.call.invoked
    /\ last.call.result.stdout = J_ba
    /\ ~last.call.ret.passed
    /\ last.call.ret.actual = J_ba

\* C10: the entries are executed one at a time in index order, each once;
\* total is the number of entries attempted, passed_count the number of
\* passing verdicts, so passed_count <= total, and total is the number of
\* loaded entries when the summary is printed.
C10_Counts ==
    /\ total = (IF Called THEN last.tcount + 1 ELSE 0)
    /\ passed_count = Cardinality({i \in 1..Len(verdicts) : verdicts[i].passed})
    /\ passed_count <= total
    /\ Len(verdicts) = tcount
    /\ \A i, j \in 1..Len(procs) : i < j => procs[i].tcount < procs[j].tcount
    /\ HasLine(out, "Summary") =>
          total = Len(all_tests) /\ Len(verdicts) = Len(all_tests)

C10_Step ==
    last' # last =>
        /\ last'.tcount = tcount
        /\ total' = total + 1
        /\ tcount' = tcount + 1 \/ pc' = "exit"
        /\ Len(procs') <= Len(procs) + 1

C10_Sequential == []C10_Counts /\ [][C10_Step]_vars

C10_Witness ==
    /\ HasLine(out, "Summary")
    /\ total = 2
    /\ passed_count = 1
    /\ Len(procs) = 2

====
